---- MODULE Spec2Model ----
(***************************************************************************)
(* Model of backend/app/utils/helpers.py of GeminiImageApp: the rendering  *)
(* helpers draw_bounding_box, draw_all_bounding_boxes,                     *)
(* create_segmentation_overlay, create_segment_image, save_generated_image *)
(* and the shared-storage mirror copy_to_shared_storage.                   *)
(*                                                                         *)
(* Every call is a process p with a program counter pc[p]; its arguments   *)
(* are arg[p], its local variables loc[p].  The file system is `files'     *)
(* (content per path) and `dirs' (directories that exist).                 *)
(*                                                                         *)
(* Python floats are IEEE-754 doubles.  A normalized coordinate, the       *)
(* expand ratio and the resize scale are doubles fl(n/d), the double       *)
(* nearest to the rational n/d; int(fl(n/d) * k) is computed exactly, with *)
(* both roundings, by FloatMulTrunc.                                       *)
(***************************************************************************)
EXTENDS Integers, Sequences, FiniteSets, TLC

VARIABLES arg, pc, loc, ret, exc, mirror, files, dirs, writers

vars == <<arg, pc, loc, ret, exc, mirror, files, dirs, writers>>

Procs == {1, 2}

(***************************************************************************)
(* Bounds of the model.                                                    *)
(***************************************************************************)
\* normalized coordinates are the doubles fl(k/GridDen), k in 0..GridDen
GridDen == 10
\* longest detection list made of drawable and 3-element entries
MaxDetections == 9
\* longest detection list over every kind of entry
MaxMixed == 3

(***************************************************************************)
(* Program constants.                                                      *)
(***************************************************************************)
FallbackSize == 50
MinSize == 100
colors == <<"red", "blue", "green", "yellow", "purple", "orange", "cyan", "magenta">>
StorageRoot == "/storage"
SharedStoragePath == "/storage/generated"

(***************************************************************************)
(* IEEE-754 double arithmetic on small integers.                           *)
(***************************************************************************)
Min(a, b) == IF a <= b THEN a ELSE b
Max(a, b) == IF a >= b THEN a ELSE b

RECURSIVE Pow2(_)
Pow2(e) == IF e <= 0 THEN 1 ELSE 2 * Pow2(e - 1)

\* 2^e mod d
RECURSIVE PowMod2(_, _)
PowMod2(e, d) == IF e <= 0 THEN 1 % d ELSE (2 * PowMod2(e - 1, d)) % d

\* the binade of n/d: the k with 2^k <= n/d < 2^(k+1), for n, d > 0
RECURSIVE BinadeUp(_, _, _)
BinadeUp(n, d, k) == IF d * Pow2(k + 1) <= n THEN BinadeUp(n, d, k + 1) ELSE k
RECURSIVE BinadeDown(_, _, _)
BinadeDown(n, d, m) == IF n * Pow2(m) < d THEN BinadeDown(n, d, m + 1) ELSE 0 - m
Binade(n, d) == IF n >= d THEN BinadeUp(n, d, 0) ELSE BinadeDown(n, d, 1)

\* the j with 2^j < N <= 2^(j+1), for N >= 1: the doubles just below N are
\* spaced 2^(j-52) apart
RECURSIVE BelowPow(_, _)
BelowPow(N, j) == IF Pow2(j + 1) < N THEN BelowPow(N, j + 1) ELSE j
SpacingExp(N) == IF N = 1 THEN 0 - 1 ELSE BelowPow(N, 0)

\* int(fl(n/d) * k) for integers n >= 0, d > 0, k >= 0, as CPython computes
\* it: fl(n/d) is the 53-bit round-to-nearest quotient, the product is
\* rounded to nearest again, and int() truncates.  When n*k/d is not an
\* integer the two roundings (relative 2^-53 each) cannot cross an integer;
\* when it is an integer N, the result is N-1 exactly when the quotient was
\* rounded down (remainder rem of n*2^(52-b) by d with 0 < 2*rem < d) and the
\* shortfall k*rem/(d*2^(52-b)) exceeds half the spacing 2^(j-52) below N.
FloatMulTrunc(n, d, k) ==
  IF (n * k) % d # 0 THEN (n * k) \div d
  ELSE LET N == (n * k) \div d
           b == Binade(n, d)
           rem == ((n % d) * PowMod2(52 - b, d)) % d
           j == SpacingExp(N)
           lhs == k * rem * 2 * (IF j - b < 0 THEN Pow2(b - j) ELSE 1)
           rhs == d * (IF j - b >= 0 THEN Pow2(j - b) ELSE 1)
       IN IF N = 0 THEN 0
          ELSE IF rem = 0 \/ 2 * rem > d THEN N
          ELSE IF lhs > rhs THEN N - 1 ELSE N

(***************************************************************************)
(* Values: paths, Python values, boxes.                                    *)
(***************************************************************************)
LocalDirs == {"/app/generated", "/app/uploads"}
Bases == {"a.jpg", "b.png"}
Paths == [dir : LocalDirs \cup {SharedStoragePath}, base : Bases]

\* os.path.join(folder, filename), os.path.basename(path); every modelled path
\* is absolute, so os.path.abspath is the identity
JoinPath(folder, filename) == [dir |-> folder, base |-> filename]
BaseName(path) == path.base

\* a Python value passed as a bbox: a list of numbers or None
PyList(s) == [t |-> "list", v |-> s]
PyNone == [t |-> "none", v |-> <<>>]
\* len(v): -1 stands for the TypeError len() raises on None
PyLen(v) == IF v.t = "list" THEN Len(v.v) ELSE 0 - 1

NoBox == [x1 |-> 0 - 1, y1 |-> 0 - 1, x2 |-> 0 - 1, y2 |-> 0 - 1]
NoSize == [w |-> 0 - 1, h |-> 0 - 1]
Loc0 == [pixel |-> NoBox, expanded |-> NoBox, crop |-> NoSize, out |-> NoSize,
         drawn |-> <<>>, i |-> 0]

\* the contents of the file an operation writes
Artifact(p) == IF p = 1 THEN "artifact1" ELSE "artifact2"

(***************************************************************************)
(* Coordinate transform and box geometry.                                  *)
(***************************************************************************)
\* variant: width and height exchanged
ToPixelSwapped(b, img) ==
  [x1 |-> FloatMulTrunc(b[2].n, b[2].d, img.h),
   y1 |-> FloatMulTrunc(b[1].n, b[1].d, img.w),
   x2 |-> FloatMulTrunc(b[4].n, b[4].d, img.h),
   y2 |-> FloatMulTrunc(b[3].n, b[3].d, img.w)]

\* ymin, xmin, ymax, xmax = bbox; x1 = int(xmin * width), y1 = int(ymin * height),
\* x2 = int(xmax * width), y2 = int(ymax * height)
ToPixel(b, img) ==
  [x1 |-> FloatMulTrunc(b[2].n, b[2].d, img.w),
   y1 |-> FloatMulTrunc(b[1].n, b[1].d, img.h),
   x2 |-> FloatMulTrunc(b[4].n, b[4].d, img.w),
   y2 |-> FloatMulTrunc(b[3].n, b[3].d, img.h)]

\* variant: no expansion
ExpandAmountNone(len, r) == 0

\* expand_x = int(bbox_width * expand_ratio)
ExpandAmount(len, r) == FloatMulTrunc(r.n, r.d, len)

\* x1_expanded = max(0, x1 - expand_x) ... y2_expanded = min(height, y2 + expand_y)
ExpandBox(px, r, img) ==
  LET expand_x == ExpandAmount(px.x2 - px.x1, r)
      expand_y == ExpandAmount(px.y2 - px.y1, r)
  IN [x1 |-> Max(0, px.x1 - expand_x),
      y1 |-> Max(0, px.y1 - expand_y),
      x2 |-> Min(img.w, px.x2 + expand_x),
      y2 |-> Min(img.h, px.y2 + expand_y)]

\* if x2_expanded <= x1_expanded: x2_expanded = min(width, x1_expanded + 50)
RepairBox(e, img) ==
  [x1 |-> e.x1,
   y1 |-> e.y1,
   x2 |-> IF e.x2 <= e.x1 THEN Min(img.w, e.x1 + FallbackSize) ELSE e.x2,
   y2 |-> IF e.y2 <= e.y1 THEN Min(img.h, e.y1 + FallbackSize) ELSE e.y2]

\* image.crop((x1, y1, x2, y2)).size
CropSize(e) == [w |-> e.x2 - e.x1, h |-> e.y2 - e.y1]

\* scale_x = min_size / size[0] if size[0] < min_size else 1: the double
\* fl(n/d), kept as the pair (n, d)
ScaleOf(size) == IF size < MinSize THEN [n |-> MinSize, d |-> size] ELSE [n |-> 1, d |-> 1]
\* max(scale_x, scale_y)
MaxScale(a, b) == IF a.n * b.d >= b.n * a.d THEN a ELSE b

\* the division min_size / size raises ZeroDivisionError on an empty crop
ResizeRaises(c) == (c.w < MinSize \/ c.h < MinSize) /\ (c.w = 0 \/ c.h = 0)

\* new_width = int(size[0] * scale), new_height = int(size[1] * scale)
ResizeCrop(c) ==
  IF c.w < MinSize \/ c.h < MinSize
  THEN LET scale == MaxScale(ScaleOf(c.w), ScaleOf(c.h))
       IN [w |-> FloatMulTrunc(scale.n, scale.d, c.w),
           h |-> FloatMulTrunc(scale.n, scale.d, c.h)]
  ELSE c

\* variant: at least 4 components
HasAnyComponents(b) == PyLen(b) >= 4

\* if len(bbox_coords) == 4
HasFourComponents(b) == PyLen(b) = 4

(***************************************************************************)
(* Steps shared by the operations.                                         *)
(***************************************************************************)
Set(f, p, v) == [f EXCEPT ![p] = v]

\* the operations that end with copy_to_shared_storage(output_path, filename)
CallsMirror(o) == o \in {"draw_bounding_box", "draw_all_bounding_boxes", "save_generated_image"}

\* variant: one fixed name in the shared directory
MirrorDestFixedName(filename) == JoinPath(SharedStoragePath, "a.jpg")

\* dest_path = os.path.join(shared_storage_path, filename)
MirrorDest(filename) == JoinPath(SharedStoragePath, filename)

\* variant: no except clause, the failure reaches the caller
MirrorFailurePropagates == [pc |-> "done", exc |-> "OSError", ret |-> "raised"]

\* except Exception as e: print(...); pass -- the helper returns normally and
\* the operation goes on to `return output_path'
AfterMirrorFailure == [pc |-> "return", exc |-> "none", ret |-> "pending"]

\* if os.path.abspath(source_path) != os.path.abspath(dest_path)
MustCopy(source, dest) == source # dest

\* variant: the colour follows the number n of boxes drawn so far
ColorByDrawn(i, n) == colors[(n % Len(colors)) + 1]

\* color = colors[i % len(colors)], i the position from enumerate()
ColorOf(i, n) == colors[(i % Len(colors)) + 1]

\* an uncaught exception ends the call
Raise(p, e) ==
  /\ exc' = Set(exc, p, e)
  /\ ret' = Set(ret, p, "raised")
  /\ pc' = Set(pc, p, "done")

\* image.save(output_path, ...) / open(filepath, 'wb'): the file is created or
\* truncated
SaveOpen(p) ==
  /\ pc[p] = "save"
  /\ files' = Set(files, arg[p].path, "empty")
  /\ writers' = Set(writers, arg[p].path, writers[arg[p].path] \cup {p})
  /\ pc' = Set(pc, p, "write")
  /\ UNCHANGED <<arg, loc, ret, exc, mirror, dirs>>

\* ... and its content written; then the storage mirror, where the code has it
SaveWrite(p) ==
  /\ pc[p] = "write"
  /\ files' = Set(files, arg[p].path, Artifact(p))
  /\ pc' = Set(pc, p, IF CallsMirror(arg[p].op) THEN "mirror" ELSE "return")
  /\ UNCHANGED <<arg, loc, ret, exc, mirror, dirs, writers>>

\* copy_to_shared_storage: if os.path.exists('/storage')
MirrorCheck(p) ==
  /\ pc[p] = "mirror"
  /\ IF StorageRoot \in dirs
     THEN /\ pc' = Set(pc, p, "mkdir")
          /\ UNCHANGED mirror
     ELSE /\ pc' = Set(pc, p, "return")
          /\ mirror' = Set(mirror, p, "skipped")
  /\ UNCHANGED <<arg, loc, ret, exc, files, dirs, writers>>

\* a failure anywhere in the try block
MirrorFails(p) ==
  /\ mirror' = Set(mirror, p, "failed")
  /\ pc' = Set(pc, p, AfterMirrorFailure.pc)
  /\ exc' = Set(exc, p, AfterMirrorFailure.exc)
  /\ ret' = Set(ret, p, AfterMirrorFailure.ret)

\* os.makedirs(shared_storage_path, exist_ok=True): succeeds or raises
MirrorMkdir(p) ==
  /\ pc[p] = "mkdir"
  /\ \/ /\ dirs' = dirs \cup {SharedStoragePath}
        /\ pc' = Set(pc, p, "copy")
        /\ UNCHANGED <<mirror, exc, ret>>
     \/ /\ SharedStoragePath \notin dirs
        /\ MirrorFails(p)
        /\ UNCHANGED dirs
  /\ UNCHANGED <<arg, loc, files, writers>>

\* the same-file test, then shutil.copy2 opens (creates or truncates) dest_path
MirrorCopyOpen(p) ==
  LET dest == MirrorDest(BaseName(arg[p].path))
  IN /\ pc[p] = "copy"
     /\ IF MustCopy(arg[p].path, dest)
        THEN \/ /\ files' = Set(files, dest, "empty")
                /\ writers' = Set(writers, dest, writers[dest] \cup {p})
                /\ pc' = Set(pc, p, "copydata")
                /\ UNCHANGED <<mirror, exc, ret>>
             \/ /\ MirrorFails(p)
                /\ UNCHANGED <<files, writers>>
        ELSE /\ mirror' = Set(mirror, p, "same_file")
             /\ pc' = Set(pc, p, "return")
             /\ UNCHANGED <<files, writers, exc, ret>>
     /\ UNCHANGED <<arg, loc, dirs>>

\* shutil.copy2 copies what the source file holds, or fails on the way
MirrorCopyData(p) ==
  LET dest == MirrorDest(BaseName(arg[p].path))
  IN /\ pc[p] = "copydata"
     /\ \/ /\ files' = Set(files, dest, files[arg[p].path])
           /\ mirror' = Set(mirror, p, "copied")
           /\ pc' = Set(pc, p, "return")
           /\ UNCHANGED <<exc, ret>>
        \/ /\ MirrorFails(p)
           /\ UNCHANGED files
     /\ UNCHANGED <<arg, loc, dirs, writers>>

\* return output_path
Return(p) ==
  /\ pc[p] = "return"
  /\ ret' = Set(ret, p, "output_path")
  /\ pc' = Set(pc, p, "done")
  /\ UNCHANGED <<arg, loc, exc, mirror, files, dirs, writers>>

(***************************************************************************)
(* The operations.                                                         *)
(***************************************************************************)
\* save_generated_image: os.makedirs(generated_folder) when it is missing
SaveGeneratedImage_Begin(p) ==
  /\ arg[p].op = "save_generated_image"
  /\ pc[p] = "start"
  /\ dirs' = dirs \cup {arg[p].path.dir}
                  \cup (IF arg[p].path.dir = SharedStoragePath THEN {StorageRoot} ELSE {})
  /\ pc' = Set(pc, p, "save")
  /\ UNCHANGED <<arg, loc, ret, exc, mirror, files, writers>>

\* draw_bounding_box: open and normalize the image, draw the box if the bbox
\* has 4 components
DrawBoundingBox_Render(p) ==
  /\ arg[p].op = "draw_bounding_box"
  /\ pc[p] = "start"
  /\ IF PyLen(arg[p].bbox) < 0
     THEN /\ Raise(p, "TypeError")
          /\ UNCHANGED loc
     ELSE /\ loc' = Set(loc, p,
                 IF HasFourComponents(arg[p].bbox)
                 THEN [loc[p] EXCEPT !.pixel = ToPixel(arg[p].bbox.v, arg[p].img),
                                     !.drawn = <<[index |-> 0, color |-> "red",
                                                  box |-> ToPixel(arg[p].bbox.v, arg[p].img)]>>]
                 ELSE loc[p])
          /\ pc' = Set(pc, p, "save")
          /\ UNCHANGED <<ret, exc>>
  /\ UNCHANGED <<arg, mirror, files, dirs, writers>>

\* draw_all_bounding_boxes: open and normalize the image
DrawAll_Open(p) ==
  /\ arg[p].op = "draw_all_bounding_boxes"
  /\ pc[p] = "start"
  /\ pc' = Set(pc, p, "loop")
  /\ UNCHANGED <<arg, loc, ret, exc, mirror, files, dirs, writers>>

\* one iteration of `for i, obj in enumerate(detected_objects)'
DrawAll_Entry(p) ==
  /\ pc[p] = "loop"
  /\ loc[p].i < Len(arg[p].dets)
  /\ LET i == loc[p].i
         obj == arg[p].dets[i + 1]
         bbox == IF obj.has THEN obj.bbox ELSE PyList(<<>>)
     IN IF PyLen(bbox) < 0
        THEN /\ Raise(p, "TypeError")
             /\ UNCHANGED loc
        ELSE /\ loc' = Set(loc, p,
                    IF HasFourComponents(bbox)
                    THEN [loc[p] EXCEPT
                            !.i = i + 1,
                            !.drawn = Append(@, [index |-> i,
                                                 color |-> ColorOf(i, Len(loc[p].drawn)),
                                                 box |-> ToPixel(bbox.v, arg[p].img)])]
                    ELSE [loc[p] EXCEPT !.i = i + 1])
             /\ UNCHANGED <<pc, ret, exc>>
  /\ UNCHANGED <<arg, mirror, files, dirs, writers>>

\* the loop is exhausted: save the image
DrawAll_EndLoop(p) ==
  /\ pc[p] = "loop"
  /\ loc[p].i = Len(arg[p].dets)
  /\ pc' = Set(pc, p, "save")
  /\ UNCHANGED <<arg, loc, ret, exc, mirror, files, dirs, writers>>

\* create_segmentation_overlay: decode, composite
Overlay_Render(p) ==
  /\ arg[p].op = "create_segmentation_overlay"
  /\ pc[p] = "start"
  /\ pc' = Set(pc, p, "save")
  /\ UNCHANGED <<arg, loc, ret, exc, mirror, files, dirs, writers>>

\* create_segment_image: transform, expand, repair, crop, resize; None when
\* the bbox has not 4 components
Segment_Render(p) ==
  /\ arg[p].op = "create_segment_image"
  /\ pc[p] = "start"
  /\ LET img == arg[p].img
         px == ToPixel(arg[p].bbox.v, img)
         ex == RepairBox(ExpandBox(px, arg[p].ratio, img), img)
         crop == CropSize(ex)
     IN IF PyLen(arg[p].bbox) < 0
        THEN /\ Raise(p, "TypeError")
             /\ UNCHANGED loc
        ELSE IF ~HasFourComponents(arg[p].bbox)
        THEN /\ ret' = Set(ret, p, "None")
             /\ pc' = Set(pc, p, "done")
             /\ UNCHANGED <<loc, exc>>
        ELSE IF ResizeRaises(crop)
        THEN /\ Raise(p, "ZeroDivisionError")
             /\ loc' = Set(loc, p, [loc[p] EXCEPT !.pixel = px, !.expanded = ex,
                                                   !.crop = crop])
        ELSE /\ loc' = Set(loc, p, [loc[p] EXCEPT !.pixel = px, !.expanded = ex,
                                                   !.crop = crop, !.out = ResizeCrop(crop)])
             /\ pc' = Set(pc, p, "save")
             /\ UNCHANGED <<ret, exc>>
  /\ UNCHANGED <<arg, mirror, files, dirs, writers>>

(***************************************************************************)
(* Inputs.                                                                 *)
(***************************************************************************)
Coord(n, d) == [n |-> n, d |-> d]
Grid == {Coord(k, GridDen) : k \in 0..GridDen}

\* well-formed normalized boxes <<ymin, xmin, ymax, xmax>> on the grid
WellFormedBoxes ==
  {<<ymin, xmin, ymax, xmax>> : ymin \in Grid, xmin \in Grid, ymax \in Grid, xmax \in Grid}
    \ {b \in Grid \X Grid \X Grid \X Grid : b[1].n > b[3].n \/ b[2].n > b[4].n}

\* scenario A: bbox [0.1, 0.1, 0.3, 0.3] of a 1000x800 image, expand_ratio 0.1
ScenarioBox == <<Coord(1, 10), Coord(1, 10), Coord(3, 10), Coord(3, 10)>>
ScenarioImage == [w |-> 1000, h |-> 800]
DefaultRatio == Coord(1, 10)

\* bbox arguments without 4 components
MalformedBoxes ==
  {PyList(<<>>), PyList(<<Coord(1, 10), Coord(1, 10), Coord(3, 10)>>),
   PyList(ScenarioBox \o <<Coord(1, 2)>>), PyNone}

SegmentImages ==
  {[w |-> 40, h |-> 30], [w |-> 97, h |-> 97], [w |-> 120, h |-> 290], ScenarioImage}

DrawImages == {[w |-> 1, h |-> 1], [w |-> 90, h |-> 170], ScenarioImage}

\* detections: a drawable entry, a 3-element bbox, a 5-element bbox, no bbox
\* key, bbox None
Drawable == [has |-> TRUE, bbox |-> PyList(ScenarioBox)]
ShortBox == [has |-> TRUE, bbox |-> PyList(<<Coord(1, 10), Coord(1, 10), Coord(3, 10)>>)]
LongBox == [has |-> TRUE, bbox |-> PyList(ScenarioBox \o <<Coord(1, 2)>>)]
NoBBoxKey == [has |-> FALSE, bbox |-> PyNone]
NullBBox == [has |-> TRUE, bbox |-> PyNone]

SeqsUpTo(S, n) == UNION {[1..k -> S] : k \in 0..n}
DetectionLists ==
  SeqsUpTo({Drawable, ShortBox}, MaxDetections)
    \cup SeqsUpTo({Drawable, ShortBox, LongBox, NoBBoxKey, NullBBox}, MaxMixed)

HomePath == JoinPath("/app/generated", "a.jpg")
Call(o, path, img, bbox, ratio, dets) ==
  [op |-> o, path |-> path, img |-> img, bbox |-> bbox, ratio |-> ratio, dets |-> dets]
Idle == Call("idle", HomePath, ScenarioImage, PyList(ScenarioBox), DefaultRatio, <<>>)

\* the directories that exist when the calls start: a local deployment, a shared
\* root without its generated/ directory, a shared root with it, or nothing yet
AllDirs == LocalDirs \cup {StorageRoot, SharedStoragePath}
DirStates == {LocalDirs, LocalDirs \cup {StorageRoot}, AllDirs}

InitWith(calls, d) ==
  /\ arg = calls
  /\ pc = [p \in Procs |-> IF calls[p].op = "idle" THEN "done" ELSE "start"]
  /\ loc = [p \in Procs |-> Loc0]
  /\ ret = [p \in Procs |-> "pending"]
  /\ exc = [p \in Procs |-> "none"]
  /\ mirror = [p \in Procs |-> "not_run"]
  /\ files = [f \in Paths |-> "absent"]
  /\ dirs = d
  /\ writers = [f \in Paths |-> {}]

Alone(c) == [p \in Procs |-> IF p = 1 THEN c ELSE Idle]

(***************************************************************************)
(* SpecSegment: one call of create_segment_image.                          *)
(***************************************************************************)
SegmentCalls ==
  {Call("create_segment_image", HomePath, img, b, r, <<>>) :
     img \in SegmentImages,
     b \in {PyList(x) : x \in WellFormedBoxes \cup {ScenarioBox}} \cup MalformedBoxes,
     r \in {DefaultRatio, Coord(1, 2)}}

InitSegment == \E c \in SegmentCalls : InitWith(Alone(c), AllDirs)

NextSegment ==
  \E p \in Procs : Segment_Render(p) \/ SaveOpen(p) \/ SaveWrite(p) \/ Return(p)

SpecSegment == InitSegment /\ [][NextSegment]_vars

(***************************************************************************)
(* SpecDraw: one call of draw_bounding_box or draw_all_bounding_boxes.     *)
(***************************************************************************)
SingleCalls ==
  {Call("draw_bounding_box", HomePath, img, b, DefaultRatio, <<>>) :
     img \in DrawImages,
     b \in {PyList(x) : x \in WellFormedBoxes \cup {ScenarioBox}} \cup MalformedBoxes}

MultiCalls ==
  {Call("draw_all_bounding_boxes", HomePath, img, PyList(<<>>), DefaultRatio, ds) :
     img \in {[w |-> 90, h |-> 170]}, ds \in DetectionLists}

InitDraw ==
  \/ \E c \in SingleCalls : InitWith(Alone(c), AllDirs)
  \/ \E c \in MultiCalls, d \in DirStates : InitWith(Alone(c), d)

Mirror(p) == MirrorCheck(p) \/ MirrorMkdir(p) \/ MirrorCopyOpen(p) \/ MirrorCopyData(p)

NextDraw ==
  \E p \in Procs :
    \/ DrawBoundingBox_Render(p)
    \/ DrawAll_Open(p) \/ DrawAll_Entry(p) \/ DrawAll_EndLoop(p)
    \/ SaveOpen(p) \/ SaveWrite(p)
    \/ Mirror(p)
    \/ Return(p)

SpecDraw == InitDraw /\ [][NextDraw]_vars

(***************************************************************************)
(* Spec: two concurrent calls on one file system.                          *)
(***************************************************************************)
Operations ==
  {"draw_bounding_box", "draw_all_bounding_boxes", "create_segmentation_overlay",
   "create_segment_image", "save_generated_image"}

StorageCalls ==
  {Call(o, path, ScenarioImage, PyList(ScenarioBox), DefaultRatio, <<Drawable>>) :
     o \in Operations, path \in Paths}

\* an output directory exists before the call, except that save_generated_image
\* creates its folder
DirsFit(calls, d) ==
  \A p \in Procs : calls[p].op # "save_generated_image" => calls[p].path.dir \in d

Init ==
  \E c1 \in StorageCalls, c2 \in StorageCalls, d \in DirStates \cup {{}} :
    /\ DirsFit([p \in Procs |-> IF p = 1 THEN c1 ELSE c2], d)
    /\ InitWith([p \in Procs |-> IF p = 1 THEN c1 ELSE c2], d)

Next ==
  \E p \in Procs :
    \/ SaveGeneratedImage_Begin(p)
    \/ DrawBoundingBox_Render(p)
    \/ DrawAll_Open(p) \/ DrawAll_Entry(p) \/ DrawAll_EndLoop(p)
    \/ Overlay_Render(p)
    \/ Segment_Render(p)
    \/ SaveOpen(p) \/ SaveWrite(p)
    \/ Mirror(p)
    \/ Return(p)

Spec == Init /\ [][Next]_vars

(***************************************************************************)
(* Properties.                                                             *)
(***************************************************************************)
Box(a, b, c, d) == [x1 |-> a, y1 |-> b, x2 |-> c, y2 |-> d]
IsSegment(p) == arg[p].op = "create_segment_image"
FourList(b) == b.t = "list" /\ Len(b.v) = 4
\* ymin = ymax and/or xmin = xmax
Degenerate(b) == b[1] = b[3] \/ b[2] = b[4]
Abs(x) == IF x < 0 THEN 0 - x ELSE x

\* C1: create_segment_image, on a well-formed degenerate box (ymin = ymax and/or
\* xmin = xmax, boxes on the right or bottom edge included), leaves after the
\* degenerate repair an expanded box of strictly positive width and height.
C1_DegenerateRepairPositive ==
  \A p \in Procs :
    (/\ IsSegment(p)
     /\ FourList(arg[p].bbox)
     /\ Degenerate(arg[p].bbox.v)
     /\ loc[p].expanded # NoBox)
    => /\ loc[p].expanded.x1 < loc[p].expanded.x2
       /\ loc[p].expanded.y1 < loc[p].expanded.y2

\* C6: a crop with a side below 100 pixels (both positive) is resized to a
\* result with both sides >= 100, no side smaller than the crop's, and a
\* width:height ratio that differs from the crop's only by the truncation
\* (each side is less than one pixel short of the scaled side).
C6_ResizeReachesMinSize ==
  \A p \in Procs :
    (/\ IsSegment(p)
     /\ loc[p].out # NoSize
     /\ loc[p].crop.w > 0 /\ loc[p].crop.h > 0
     /\ (loc[p].crop.w < 100 \/ loc[p].crop.h < 100))
    => /\ loc[p].out.w >= 100 /\ loc[p].out.h >= 100
       /\ loc[p].out.w >= loc[p].crop.w /\ loc[p].out.h >= loc[p].crop.h
       /\ Abs(loc[p].out.w * loc[p].crop.h - loc[p].out.h * loc[p].crop.w)
            < Max(loc[p].crop.w, loc[p].crop.h)

IsScenarioA(p) ==
  /\ IsSegment(p)
  /\ arg[p].img = [w |-> 1000, h |-> 800]
  /\ arg[p].bbox = PyList(<<Coord(1, 10), Coord(1, 10), Coord(3, 10), Coord(3, 10)>>)
  /\ arg[p].ratio = Coord(1, 10)

\* C9 as stated: scenario A (1000x800 image, bbox [0.1,0.1,0.3,0.3], expand
\* ratio 0.1) has the expanded pixel box (92,72,308,252).
C9_ScenarioA_AsStated ==
  \A p \in Procs :
    (IsScenarioA(p) /\ loc[p].expanded # NoBox) => loc[p].expanded = Box(92, 72, 308, 252)

\* C9: scenario A (1000x800 image, bbox [0.1,0.1,0.3,0.3], expand ratio 0.1)
\* has the pixel box (100,80,300,240) and, before the minimum-size correction,
\* the expanded pixel box (80,64,320,256).
C9_ScenarioA ==
  \A p \in Procs :
    (IsScenarioA(p) /\ loc[p].expanded # NoBox)
    => /\ loc[p].pixel = Box(100, 80, 300, 240)
       /\ loc[p].expanded = Box(80, 64, 320, 256)

C9_Witness ==
  \E p \in Procs : IsScenarioA(p) /\ pc[p] = "done" /\ loc[p].expanded # NoBox

IsDrawAll(p) == arg[p].op = "draw_all_bounding_boxes"
Indexes(drawn) == {drawn[k].index : k \in 1..Len(drawn)}
WithinImage(b, img) ==
  /\ 0 <= b.x1 /\ b.x1 <= b.x2 /\ b.x2 <= img.w
  /\ 0 <= b.y1 /\ b.y1 <= b.y2 /\ b.y2 <= img.h

\* C4: draw_all_bounding_boxes completes without raising on every detection
\* list and writes the output image; it draws exactly one box for each entry
\* whose bbox is a list of 4 numbers and skips every entry whose bbox is absent,
\* not a list, or not of length 4.
C4_DrawAllNeverRaises ==
  \A p \in Procs :
    (IsDrawAll(p) /\ pc[p] = "done")
    => /\ exc[p] = "none"
       /\ ret[p] = "output_path"
       /\ files[arg[p].path] = Artifact(p)
       /\ Len(loc[p].drawn) = Cardinality(Indexes(loc[p].drawn))
       /\ Indexes(loc[p].drawn) =
            {i \in 0..(Len(arg[p].dets) - 1) :
               arg[p].dets[i + 1].has /\ FourList(arg[p].dets[i + 1].bbox)}

\* C7: the pixel box of every box drawn by draw_bounding_box and
\* draw_all_bounding_boxes from a well-formed normalized box satisfies
\* 0 <= x1 <= x2 <= W and 0 <= y1 <= y2 <= H.
C7_PixelBoxWithinImage ==
  \A p \in Procs :
    \A k \in 1..Len(loc[p].drawn) : WithinImage(loc[p].drawn[k].box, arg[p].img)

C7_Witness ==
  \E p \in Procs :
    /\ arg[p].op = "draw_bounding_box" /\ pc[p] = "done"
    /\ arg[p].img = [w |-> 90, h |-> 170]
    /\ Len(loc[p].drawn) = 1
    /\ loc[p].drawn[1].box = Box(62, 17, 90, 170)

\* C8: draw_all_bounding_boxes draws the detection at position i of the input
\* (positions counted over all entries, skipped ones included) in
\* colors[i mod 8]: positions 0 and 8 share a colour, and positions that differ
\* modulo 8 get different colours.
C8_ColourByPosition ==
  \A p \in Procs :
    IsDrawAll(p) =>
      \A k \in 1..Len(loc[p].drawn) :
        LET d == loc[p].drawn[k]
        IN /\ d.color = colors[(d.index % 8) + 1]
           /\ d.index \in {0, 8} => d.color = "red"
           /\ d.index = 1 => d.color = "blue"
           /\ \A m \in 1..Len(loc[p].drawn) :
                (d.color = loc[p].drawn[m].color)
                  <=> ((d.index - loc[p].drawn[m].index) % 8 = 0)

C8_Witness ==
  \E p \in Procs :
    /\ IsDrawAll(p) /\ pc[p] = "done" /\ Len(arg[p].dets) = 9
    /\ {0, 8} \subseteq Indexes(loc[p].drawn)
    /\ 1 \notin Indexes(loc[p].drawn)
    /\ 2 \in Indexes(loc[p].drawn)

MirrorOf(p) == JoinPath("/storage/generated", arg[p].path.base)

\* the shared-storage root exists from the start of both calls: it exists now
\* and no call is one that could have created it
RootPresentThroughout ==
  /\ "/storage" \in dirs
  /\ \A q \in Procs :
       ~(arg[q].op = "save_generated_image" /\ arg[q].path.dir = "/storage/generated")

\* C2: when the shared-storage root exists, every operation that writes an
\* output file at its primary path runs the storage-mirror step after the
\* primary write and before returning, so that on return, absent a mirror
\* failure, a copy of the artifact exists in the shared-storage location.
C2_EveryWriterMirrors ==
  \A p \in Procs :
    (/\ arg[p].op \in Operations
     /\ pc[p] = "done" /\ ret[p] = "output_path"
     /\ RootPresentThroughout)
    => /\ mirror[p] \in {"copied", "same_file", "failed"}
       /\ mirror[p] # "failed" => files[MirrorOf(p)] # "absent"

InMirror(p) == pc[p] \in {"mirror", "mkdir", "copy", "copydata"}

\* C3: a failure anywhere in the mirror step never reaches the caller: an
\* operation that entered copy_to_shared_storage returns its primary path and
\* raises nothing, whether the mirror copied, was skipped or failed; and no step
\* of the mirror changes the file at the operation's primary path.
C3_MirrorFailureContained ==
  /\ [](\A p \in Procs :
          /\ (InMirror(p) \/ mirror[p] # "not_run") => exc[p] = "none"
          /\ (pc[p] = "done" /\ mirror[p] # "not_run") => ret[p] = "output_path")
  /\ [][\A p \in Procs :
          (InMirror(p) /\ pc'[p] # pc[p]) => files'[arg[p].path] = files[arg[p].path]]_vars

C3_Witness ==
  \E p \in Procs :
    /\ pc[p] = "done" /\ mirror[p] = "failed" /\ ret[p] = "output_path"
    /\ files[arg[p].path] = Artifact(p)
    /\ files[MirrorOf(p)] = "empty"

\* C5 as stated: two concurrent operations given distinct destination paths
\* write no file in common, the files of their mirror steps included.
C5_DistinctPathsIndependent ==
  (arg[1].path # arg[2].path) => \A f \in Paths : Cardinality(writers[f]) <= 1

\* C5: two concurrent operations whose destination paths have distinct file
\* names write no file in common, the files of their mirror steps included;
\* on return each operation's primary file holds its own artifact, and so does
\* its mirrored copy when the copy completed.
C5_DistinctNamesIndependent ==
  (arg[1].path.base # arg[2].path.base)
  => /\ \A f \in Paths : Cardinality(writers[f]) <= 1
     /\ \A p \in Procs :
          (pc[p] = "done" /\ ret[p] = "output_path")
          => /\ files[arg[p].path] = Artifact(p)
             /\ mirror[p] = "copied" => files[MirrorOf(p)] = Artifact(p)

C5_Witness ==
  /\ arg[1].path.base # arg[2].path.base
  /\ \A p \in Procs : pc[p] = "done" /\ mirror[p] = "copied"
  /\ \A p \in Procs : files[MirrorOf(p)] = Artifact(p) /\ writers[MirrorOf(p)] = {p}

====
